---- MODULE Spec2Model ----
(***************************************************************************)
(* Model of sync_obsidian.py: the synchronisation of a BibTeX export into  *)
(* a folder of markdown notes, one per reference.                          *)
(*                                                                         *)
(* Text (titles, identifiers, file names, file contents) is a sequence of  *)
(* characters; each character is a one-letter string.  The fixed literals  *)
(* of the note format that contain neither a dash nor a line break nor a   *)
(* quote ("title: ", "type: paper", the placeholder comment) are single    *)
(* elements of a content sequence: no operation of the program looks       *)
(* inside them.  File names are character-exact, since their length is     *)
(* what create_safe_filename budgets.                                      *)
(***************************************************************************)
EXTENDS Integers, Sequences, FiniteSets, TLC

\* ------------------------------------------------------------- text helpers

\* Python's str.strip()/split() whitespace.
WS == {" ", "\n", "\t"}

RECURSIVE LStrip(_)
LStrip(s) ==
    IF s # <<>> /\ Head(s) \in WS THEN LStrip(Tail(s)) ELSE s

RECURSIVE RStrip(_)
RStrip(s) ==
    IF s # <<>> /\ s[Len(s)] \in WS THEN RStrip(SubSeq(s, 1, Len(s) - 1)) ELSE s

Strip(s) == RStrip(LStrip(s))

\* Python's s[:n], n of either sign.
Slice(s, n) ==
    IF n >= 0
    THEN SubSeq(s, 1, IF n < Len(s) THEN n ELSE Len(s))
    ELSE SubSeq(s, 1, IF Len(s) + n > 0 THEN Len(s) + n ELSE 0)

StartsWith(s, p) == Len(p) <= Len(s) /\ SubSeq(s, 1, Len(p)) = p

EndsWith(s, p) ==
    Len(p) <= Len(s) /\ SubSeq(s, Len(s) - Len(p) + 1, Len(s)) = p

\* Index of the first occurrence of p in s, 0 when there is none.
IndexOf(s, p) ==
    LET hits == {i \in 1..(Len(s) - Len(p) + 1) : SubSeq(s, i, i + Len(p) - 1) = p}
    IN  IF hits = {} THEN 0 ELSE CHOOSE i \in hits : \A j \in hits : i <= j

\* Index of the last occurrence of character c in s, 0 when there is none.
LastIndexOf(s, c) ==
    LET hits == {i \in 1..Len(s) : s[i] = c}
    IN  IF hits = {} THEN 0 ELSE CHOOSE i \in hits : \A j \in hits : i >= j

\* Python's s.replace(p, r): every non-overlapping occurrence, left to right.
RECURSIVE Replace(_, _, _)
Replace(s, p, r) ==
    IF s = <<>> THEN <<>>
    ELSE IF StartsWith(s, p) THEN r \o Replace(SubSeq(s, Len(p) + 1, Len(s)), p, r)
    ELSE <<Head(s)>> \o Replace(Tail(s), p, r)

\* Python's s.split(c) on a single character: always at least one part.
RECURSIVE SplitOn(_, _)
SplitOn(s, c) ==
    LET hits == {i \in 1..Len(s) : s[i] = c}
    IN  IF hits = {} THEN <<s>>
        ELSE LET i == CHOOSE k \in hits : \A j \in hits : k <= j
             IN  <<SubSeq(s, 1, i - 1)>> \o SplitOn(SubSeq(s, i + 1, Len(s)), c)

\* Python's sep.join(parts).
RECURSIVE Join(_, _)
Join(parts, sep) ==
    IF parts = <<>> THEN <<>>
    ELSE IF Len(parts) = 1 THEN parts[1]
    ELSE parts[1] \o sep \o Join(Tail(parts), sep)

\* Every whitespace run of a stripped text becomes one space.
RECURSIVE Collapse(_)
Collapse(s) ==
    IF s = <<>> THEN <<>>
    ELSE IF Head(s) \in WS THEN <<" ">> \o Collapse(LStrip(s))
    ELSE <<Head(s)>> \o Collapse(Tail(s))

\* Python's ' '.join(s.split()).
JoinSplit(s) == Collapse(Strip(s))

\* ------------------------------------------------------- field normalizer

Letters ==
    {"A","B","C","D","E","F","G","H","I","J","K","L","M","N","O","P","Q","R",
     "S","T","U","V","W","X","Y","Z","a","b","c","d","e","f","g","h","i","j",
     "k","l","m","n","o","p","q","r","s","t","u","v","w","x","y","z"}

Digits == {"0","1","2","3","4","5","6","7","8","9"}

\* The characters re.sub(r'[^A-Za-z0-9\s&.,-;:/?()"\']+', '', s) keeps; the
\* range ,-; is the characters , - . / 0..9 : ;
AllowedChars ==
    Letters \cup Digits \cup WS
        \cup {"&", ".", ",", "-", "/", ":", ";", "?", "(", ")", "\"", "'"}

clean_str(s) ==
    IF s = <<>> THEN <<>>
    ELSE JoinSplit(SelectSeq(s, LAMBDA c : c \in AllowedChars))

\* One author, split on its commas.
FormatAuthor(a) ==
    IF Len(a) = 1 THEN Strip(a[1])
    ELSE IF Len(a) = 2 THEN Strip(a[2]) \o <<" ">> \o Strip(a[1])
    ELSE Strip(Join(a, <<" ">>))

format_authors(test_string) ==
    IF test_string = <<>> THEN <<>>
    ELSE LET authors == SplitOn(test_string, ";")
             formatted == [i \in 1..Len(authors) |-> FormatAuthor(SplitOn(authors[i], ","))]
         IN  Join(formatted, <<",", " ">>)

\* The value of an absent link (Python's None).
NoLink == <<"<None>">>

\* entry.get(k, ''): raw records are functions from field names to text.
Has(entry, k) == k \in DOMAIN entry

get_bib_entry(entry) ==
    [ title     |-> IF Has(entry, "title") THEN clean_str(entry["title"]) ELSE <<>>,
      authors   |-> IF Has(entry, "author")
                    THEN format_authors(clean_str(
                             Replace(Replace(entry["author"],
                                             <<" ","a","n","d"," ">>, <<";"," ">>),
                                     <<" ","A","n","d"," ">>, <<";"," ">>)))
                    ELSE <<>>,
      year      |-> IF Has(entry, "year") THEN clean_str(entry["year"]) ELSE <<>>,
      ref_id    |-> IF Has(entry, "ID") THEN entry["ID"] ELSE <<>>,
      link      |-> IF Has(entry, "url") THEN entry["url"] ELSE NoLink,
      abstract  |-> IF Has(entry, "abstract")
                    THEN clean_str(JoinSplit(entry["abstract"])) ELSE <<>>,
      journal   |-> IF Has(entry, "journal") THEN clean_str(entry["journal"]) ELSE <<>>,
      booktitle |-> IF Has(entry, "booktitle") THEN clean_str(entry["booktitle"]) ELSE <<>> ]

RefIdOf(raw) == get_bib_entry(raw).ref_id

\* ---------------------------------------------------------- filename policy

MAX_FILENAME_LENGTH == 250

\* The characters re.sub(r'[<>:"/\\|?*]', '', title) removes.
IllegalFilenameChars == {"<", ">", ":", "\"", "/", "\\", "|", "?", "*"}

DotMd == <<".", "m", "d">>

\* Mutant: the title is not cut to the space the suffix leaves.
create_safe_filename_uncut(title, ref_id) ==
    LET ref_id_part == <<" ", "(">> \o ref_id \o <<")">> \o DotMd
        stripped == Strip(SelectSeq(title, LAMBDA c : c \notin IllegalFilenameChars))
        filename == IF title # <<>> THEN stripped \o ref_id_part
                    ELSE ref_id \o DotMd
        base_name == SubSeq(filename, 1, LastIndexOf(filename, ".") - 1)
    IN  IF Len(filename) > MAX_FILENAME_LENGTH
        THEN Slice(base_name, MAX_FILENAME_LENGTH - 3) \o DotMd
        ELSE filename

create_safe_filename(title, ref_id) ==
    LET ref_id_part == <<" ", "(">> \o ref_id \o <<")">> \o DotMd
        available_space == MAX_FILENAME_LENGTH - Len(ref_id_part)
        stripped == Strip(SelectSeq(title, LAMBDA c : c \notin IllegalFilenameChars))
        safe_title == IF Len(stripped) > available_space
                      THEN RStrip(Slice(stripped, available_space))
                      ELSE stripped
        filename == IF title # <<>> THEN safe_title \o ref_id_part
                    ELSE ref_id \o DotMd
        base_name == SubSeq(filename, 1, LastIndexOf(filename, ".") - 1)
    IN  IF Len(filename) > MAX_FILENAME_LENGTH
        THEN Slice(base_name, MAX_FILENAME_LENGTH - 3) \o DotMd
        ELSE filename

\* ------------------------------------------------------------ note renderer

\* '<!-- Add your notes here -->', one element of a content sequence.
PLACEHOLDER == "<!-- Add your notes here -->"

\* The closing '---' of the header with its line break and the blank line.
Separator == <<"-", "-", "-", "\n", "\n">>

\* key: "value"\n
QuotedLine(key, value) == <<key, "\"">> \o value \o <<"\"", "\n">>

\* abstract.replace('"', '\\"')
EscapeQuotes(s) == Replace(s, <<"\"">>, <<"\\", "\"">>)

create_markdown_content(entry, notes) ==
    <<"-", "-", "-", "\n">>
    \o QuotedLine("title: ", entry.title)
    \o (IF entry.authors # <<>> THEN QuotedLine("authors: ", entry.authors) ELSE <<>>)
    \o (IF entry.year # <<>> THEN <<"year: ">> \o entry.year \o <<"\n">> ELSE <<>>)
    \o (IF entry.journal # <<>> THEN QuotedLine("journal: ", entry.journal) ELSE <<>>)
    \o (IF entry.booktitle # <<>> THEN QuotedLine("conference: ", entry.booktitle) ELSE <<>>)
    \o (IF entry.abstract # <<>>
        THEN QuotedLine("abstract: ", EscapeQuotes(entry.abstract)) ELSE <<>>)
    \o (IF entry.link # NoLink /\ entry.link # <<>>
        THEN QuotedLine("url: ", entry.link) ELSE <<>>)
    \o QuotedLine("ref_id: ", entry.ref_id)
    \o <<"type: paper", "\n">>
    \o Separator
    \o (IF notes # <<>> THEN notes ELSE <<PLACEHOLDER>>)
    \o <<"\n", "\n">>

\* ------------------------------------------------------ user-content extractor

\* Mutant: the text after the separator is not trimmed.
NotesOf_untrimmed(content) ==
    LET i == IndexOf(content, Separator)
        notes_content == SubSeq(content, i + Len(Separator), Len(content))
    IN  IF i # 0 /\ notes_content # <<>> /\ notes_content # <<PLACEHOLDER>>
        THEN notes_content
        ELSE <<>>

\* The notes recovered from a file's content (the function's work once the
\* file has been read).
NotesOf(content) ==
    LET i == IndexOf(content, Separator)
        notes_content == Strip(SubSeq(content, i + Len(Separator), Len(content)))
    IN  IF i # 0 /\ notes_content # <<>> /\ notes_content # <<PLACEHOLDER>>
        THEN notes_content
        ELSE <<>>

\* A directory is a function from the names of its files to their contents.
\* readFails: the open/read raises, which the function swallows.
extract_user_content_from_markdown(dir, filepath, readFails) ==
    IF filepath \notin DOMAIN dir THEN <<>>
    ELSE IF readFails THEN <<>>
    ELSE NotesOf(dir[filepath])

\* -------------------------------------------------------------- file system

\* The value of "no file" (Python's None for a path): no file has the empty name.
NoFile == <<>>

Rm(dir, f) == [g \in DOMAIN dir \ {f} |-> dir[g]]

Put(dir, f, content) ==
    [g \in DOMAIN dir \cup {f} |-> IF g = f THEN content ELSE dir[g]]

\* Path.rename within one directory; on POSIX a file at the target is replaced.
Rename(dir, src, dst) == Put(Rm(dir, src), dst, dir[src])

\* Path.suffix and Path.stem of a file name.
Suffix(name) ==
    LET i == LastIndexOf(name, ".")
    IN  IF 1 < i /\ i < Len(name) THEN SubSeq(name, i, Len(name)) ELSE <<>>

Stem(name) == SubSeq(name, 1, Len(name) - Len(Suffix(name)))

\* Mutant: the pattern without its wildcard.
GlobRefId_exact(dir, ref_id) ==
    {f \in DOMAIN dir : f = <<"(">> \o ref_id \o <<")">> \o DotMd}

\* papers_folder.glob(f"*({ref_id}).md"), the files directly in the folder.
GlobRefId(dir, ref_id) ==
    {f \in DOMAIN dir : EndsWith(f, <<"(">> \o ref_id \o <<")">> \o DotMd)}

\* What find_existing_file_by_ref_id may return: the first match in the
\* directory's listing order, which the program does not control.
find_existing_file_by_ref_id(dir, ref_id) ==
    IF GlobRefId(dir, ref_id) = {} THEN {NoFile} ELSE GlobRefId(dir, ref_id)

\* ------------------------------------------------------ create_obsidian_file

\* Which file-system calls of one create_obsidian_file call raise.
IOOutcomes == [read : BOOLEAN, backup : BOOLEAN, rename : BOOLEAN, write : BOOLEAN]

NoFailure == [read |-> FALSE, backup |-> FALSE, rename |-> FALSE, write |-> FALSE]

BackupName(new_filename, ref_id) ==
    Stem(new_filename) \o <<"_","b","a","c","k","u","p","_">> \o ref_id
        \o Suffix(new_filename)

\* Mutant: after a failed rename the content still goes to the new name.
RenameIfNeeded_no_fallback(dir, existing, new_filename, ref_id, io) ==
    LET must_rename == existing # NoFile /\ existing # new_filename
        occupied == new_filename \in DOMAIN dir
        backup_name == BackupName(new_filename, ref_id)
        backup_done == must_rename /\ occupied /\ ~io.backup
        rename_done == must_rename /\ ~(occupied /\ io.backup) /\ ~io.rename
        backed == IF backup_done THEN Rename(dir, new_filename, backup_name) ELSE dir
    IN  [ afterBackup |-> backed,
          dir         |-> IF rename_done THEN Rename(backed, existing, new_filename)
                          ELSE backed,
          filepath    |-> new_filename,
          touched     |-> (IF backup_done THEN {new_filename, backup_name} ELSE {})
                          \cup (IF rename_done THEN {existing, new_filename} ELSE {}),
          fell_back   |-> must_rename /\ ~rename_done,
          io_errors   |-> must_rename /\ ~rename_done ]

\* Lines 241-258, the rename to the new title's name.  The result holds the
\* folder after the backup of an occupant of the target name (afterBackup) and
\* after the rename (dir), the path the content goes to, the names touched and
\* whether the except branch was taken (fell_back).
RenameIfNeeded(dir, existing, new_filename, ref_id, io) ==
    LET must_rename == existing # NoFile /\ existing # new_filename
        occupied == new_filename \in DOMAIN dir
        backup_name == BackupName(new_filename, ref_id)
        backup_done == must_rename /\ occupied /\ ~io.backup
        rename_done == must_rename /\ ~(occupied /\ io.backup) /\ ~io.rename
    IN  [ afterBackup |-> IF backup_done
                          THEN Rename(dir, new_filename, backup_name) ELSE dir,
          dir         |-> IF rename_done
                          THEN Rename(IF backup_done
                                      THEN Rename(dir, new_filename, backup_name)
                                      ELSE dir,
                                      existing, new_filename)
                          ELSE IF backup_done
                          THEN Rename(dir, new_filename, backup_name) ELSE dir,
          filepath    |-> IF must_rename /\ ~rename_done THEN existing ELSE new_filename,
          touched     |-> (IF backup_done THEN {new_filename, backup_name} ELSE {})
                          \cup (IF rename_done THEN {existing, new_filename} ELSE {}),
          fell_back   |-> must_rename /\ ~rename_done,
          io_errors   |-> must_rename /\ ~rename_done ]

\* Lines 260-266, the write of the rendered content: renamed is the result of
\* the rename step, read_from the file the notes were read from.
WriteFile(entry, dir, read_from, user_content, renamed, io) ==
    [ dir          |-> IF io.write THEN renamed.dir
                       ELSE Put(renamed.dir, renamed.filepath,
                                create_markdown_content(entry, user_content)),
      afterBackup  |-> renamed.afterBackup,
      afterRename  |-> renamed.dir,
      raised       |-> io.write,
      filepath     |-> renamed.filepath,
      user_content |-> user_content,
      fell_back    |-> renamed.fell_back,
      unread       |-> io.read /\ read_from \in DOMAIN dir,
      touched      |-> renamed.touched
                       \cup (IF io.write THEN {} ELSE {renamed.filepath}),
      io_errors    |-> \/ io.read /\ read_from \in DOMAIN dir
                       \/ renamed.io_errors
                       \/ io.write ]

\* Lines 230-239: the notes come from the located file, else from the file at
\* the new name.
ReadAndWrite(entry, dir, existing, new_filename, read_from, io) ==
    WriteFile(entry, dir, read_from,
              extract_user_content_from_markdown(dir, read_from, io.read),
              RenameIfNeeded(dir, existing, new_filename, entry.ref_id, io), io)

\* Mutant: the notes are read at the new name even when a file was located.
CreateAt_reads_target(entry, dir, existing, new_filename, io) ==
    ReadAndWrite(entry, dir, existing, new_filename, new_filename, io)

CreateAt(entry, dir, existing, new_filename, io) ==
    ReadAndWrite(entry, dir, existing, new_filename,
                 IF existing # NoFile THEN existing ELSE new_filename, io)

\* Mutant: the note is named after the identifier alone.
create_obsidian_file_untitled(entry, dir, existing, io) ==
    CreateAt(entry, dir, existing, create_safe_filename(<<>>, entry.ref_id), io)

\* existing: the file find_existing_file_by_ref_id returned; io: which of the
\* call's file operations fail.  The result holds the folder after each file
\* operation (afterBackup, afterRename, dir), whether the call raised (the
\* write failed), the returned path and notes, the names touched and whether
\* a failure took effect.
create_obsidian_file(entry, dir, existing, io) ==
    CreateAt(entry, dir, existing, create_safe_filename(entry.title, entry.ref_id), io)

\* ------------------------------------------------------------------ archive

\* Mutant: the archive record itself is compared with the entry.
entries_are_equal_whole(archive_entry, bib_entry) ==
    IF "entry" \in DOMAIN archive_entry
    THEN DOMAIN archive_entry = DOMAIN bib_entry /\ archive_entry = bib_entry
    ELSE FALSE

\* Mutant: an entry saved in the old shape is compared as it is.
entries_are_equal_old_shape(archive_entry, bib_entry) ==
    IF "entry" \in DOMAIN archive_entry
    THEN archive_entry.entry = bib_entry
    ELSE archive_entry = bib_entry

entries_are_equal(archive_entry, bib_entry) ==
    IF "entry" \in DOMAIN archive_entry
    THEN archive_entry.entry = bib_entry
    ELSE FALSE

\* archive[ref_id] = value
SetKey(archive, ref_id, value) ==
    [k \in DOMAIN archive \cup {ref_id} |-> IF k = ref_id THEN value ELSE archive[k]]

\* del archive[ref_id]
DelKey(archive, ref_id) == [k \in DOMAIN archive \ {ref_id} |-> archive[k]]

EmptyMap == [k \in {} |-> <<>>]

\* --------------------------------------------------------------------- main

\* Mutant: the archive is updated whether or not the write raised.
Booked_always(r, formatted_entry, ref_id, c) ==
    [r EXCEPT !.papers = c.dir,
              !.updated_count = IF ref_id \in DOMAIN r.archive THEN @ + 1 ELSE @,
              !.new_count = IF ref_id \in DOMAIN r.archive THEN @ ELSE @ + 1,
              !.archive = SetKey(@, ref_id,
                                 [entry |-> formatted_entry,
                                  notes |-> c.user_content]),
              !.processed_count = @ + 1,
              !.touched = @ \cup c.touched,
              !.attempted = @ \cup {ref_id},
              !.failed = IF c.raised THEN @ \cup {ref_id} ELSE @,
              !.fell_back = IF c.fell_back THEN @ \cup {ref_id} ELSE @,
              !.unread = IF c.unread THEN @ \cup {ref_id} ELSE @,
              !.io_errors = @ \/ c.io_errors]

\* Lines 384-396: the counters and the archive after create_obsidian_file
\* returned c; lines 398-399 when it raised.
Booked(r, formatted_entry, ref_id, c) ==
    IF c.raised
    THEN [r EXCEPT !.papers = c.dir,
                   !.touched = @ \cup c.touched,
                   !.attempted = @ \cup {ref_id},
                   !.failed = @ \cup {ref_id},
                   !.fell_back = IF c.fell_back THEN @ \cup {ref_id} ELSE @,
                   !.unread = IF c.unread THEN @ \cup {ref_id} ELSE @,
                   !.io_errors = TRUE]
    ELSE [r EXCEPT !.papers = c.dir,
                   !.updated_count = IF ref_id \in DOMAIN r.archive THEN @ + 1 ELSE @,
                   !.new_count = IF ref_id \in DOMAIN r.archive THEN @ ELSE @ + 1,
                   !.archive = SetKey(@, ref_id,
                                      [entry |-> formatted_entry,
                                       notes |-> c.user_content]),
                   !.processed_count = @ + 1,
                   !.touched = @ \cup c.touched,
                   !.attempted = @ \cup {ref_id},
                   !.fell_back = IF c.fell_back THEN @ \cup {ref_id} ELSE @,
                   !.unread = IF c.unread THEN @ \cup {ref_id} ELSE @,
                   !.io_errors = @ \/ c.io_errors]

\* Lines 371-373: whether the iteration is skipped.
Unchanged(arch, formatted_entry) ==
    /\ formatted_entry.ref_id \in DOMAIN arch
    /\ entries_are_equal(arch[formatted_entry.ref_id], formatted_entry)

ProcessFormatted(r, formatted_entry, existing, io) ==
    IF Unchanged(r.archive, formatted_entry) THEN r
    ELSE Booked(r, formatted_entry, formatted_entry.ref_id,
                create_obsidian_file(formatted_entry, r.papers, existing, io))

SeenIn(r, ref_id) == [r EXCEPT !.current_ref_ids = @ \cup {ref_id}]

\* One iteration of main's loop over bibliography.entries, on the record r of
\* main's locals and the two folders.  touched, attempted, failed, fell_back
\* and io_errors record what the run did: the papers-folder names it wrote,
\* renamed or moved, the identifiers it processed, those whose processing
\* raised, those whose rename failed, and whether any file-system call failed.
ProcessOne(r, raw, existing, io) ==
    ProcessFormatted(SeenIn(r, RefIdOf(raw)), get_bib_entry(raw), existing, io)

\* The files cleanup_removed_papers tries to move: those matching the pattern
\* of an archived identifier that is not among current_ref_ids.
FilesToMove(r) ==
    UNION {GlobRefId(r.papers, ref_id) : ref_id \in DOMAIN r.archive \ r.current_ref_ids}

\* Mutant: the identifier is not deleted from the archive.
CleanupOne_keeps(r, ref_id, failMoves) ==
    IF ref_id \in r.current_ref_ids THEN r
    ELSE [r EXCEPT !.papers = [f \in DOMAIN @ \ (GlobRefId(r.papers, ref_id) \ failMoves)
                                 |-> @[f]],
                   !.removed = [f \in DOMAIN @ \cup (GlobRefId(r.papers, ref_id) \ failMoves)
                                   |-> IF f \in DOMAIN r.papers THEN r.papers[f] ELSE @[f]],
                   !.moved_count = @ + Cardinality(GlobRefId(r.papers, ref_id) \ failMoves),
                   !.touched = @ \cup (GlobRefId(r.papers, ref_id) \ failMoves)]

\* The body of cleanup's loop for one archived identifier; the moves of the
\* files in failMoves raise.
CleanupOne(r, ref_id, failMoves) ==
    IF ref_id \in r.current_ref_ids THEN r
    ELSE LET matching_files == GlobRefId(r.papers, ref_id)
             moved == matching_files \ failMoves
         IN  [r EXCEPT !.papers = [f \in DOMAIN @ \ moved |-> @[f]],
                       !.removed = [f \in DOMAIN @ \cup moved |->
                                       IF f \in moved THEN r.papers[f] ELSE @[f]],
                       !.moved_count = @ + Cardinality(moved),
                       !.touched = @ \cup moved,
                       !.io_errors = @ \/ (matching_files \cap failMoves # {}),
                       !.archive = DelKey(@, ref_id)]

RECURSIVE CleanupLoop(_, _, _)
CleanupLoop(r, keys, failMoves) ==
    IF keys = {} THEN r
    ELSE LET ref_id == CHOOSE k \in keys : TRUE
         IN  CleanupLoop(CleanupOne(r, ref_id, failMoves), keys \ {ref_id}, failMoves)

cleanup_removed_papers(r, failMoves) ==
    CleanupLoop([r EXCEPT !.moved_count = 0], DOMAIN r.archive, failMoves)

\* ------------------------------------------------------------------- bounds

\* The bibliography holds at most MaxBib records.
MaxBib == 2

\* At most MaxEvents events from outside (a new export of the bibliography, a
\* user's edit of a note, a failing file-system call, a crash) are followed.
MaxEvents == 2

RefA == <<"A">>

RefB == <<"B">>

\* Raw records as the parser yields them, with or without title and year.
\* The title "U?" differs from "U" as a title and not as a file name.
RecordsA ==
    {[ID |-> RefA],
     [ID |-> RefA, title |-> <<"T">>],
     [ID |-> RefA, title |-> <<"U">>],
     [ID |-> RefA, title |-> <<"U", "?">>],
     [ID |-> RefA, title |-> <<"T">>, year |-> <<"1">>]}

RecordsB == {[ID |-> RefB, title |-> <<"T">>]}

\* A record that has no ID.
RecordsNoId == {[title |-> <<"T">>]}

Opt(S) == {<<>>} \cup {<<r>> : r \in S}

\* The exports: at most one record of each identifier.
Bibs ==
    {b \in {a \o c \o n : a \in Opt(RecordsA), c \in Opt(RecordsB), n \in Opt(RecordsNoId)} :
        Len(b) <= MaxBib}

\* The exports of the single reference A.
BibsOne == Opt(RecordsA)

\* The events followed when the bibliography holds the single reference A.
MaxEventsOne == 3

\* What a user types below the header of a note.
UserBodies == {<<" ", "n", "\n">>}

\* -------------------------------------------------------------------- state

VARIABLES
    bib,              \* references.bib, parsed: bibliography.entries
    papers,           \* the Papers folder: file name -> content
    removed,          \* Papers/Removed Papers: file name -> content
    archive_file,     \* obsidian_archive.json: ref_id -> {entry, notes}
    pc,               \* where main is: idle, loop, save, done, crashed
    i,                \* main's position in bibliography.entries
    archive,          \* main's archive
    current_ref_ids,  \* main's current_ref_ids
    processed_count,
    new_count,
    updated_count,
    moved_count,
    pre,              \* history: the folders and archive file when the run began
    touched,          \* history: papers-folder names this run wrote, renamed or moved
    attempted,        \* history: identifiers this run called create_obsidian_file for
    failed,           \* history: identifiers whose processing raised in this run
    fell_back,        \* history: identifiers whose rename failed in this run
    unread,           \* history: identifiers whose file could not be read in this run
    io_errors,        \* history: a file-system call failed in this run
    prev,             \* history: what preceded this run
    events,           \* history: number of changes from outside so far
    op,               \* a call of one function on its own: the function and its arguments
    ret               \* what that call returned

disk == <<bib, papers, removed, archive_file>>

locals == <<archive, current_ref_ids, processed_count, new_count, updated_count,
            moved_count>>

history == <<pre, touched, attempted, failed, fell_back, unread, io_errors>>

calls == <<op, ret>>

vars == <<disk, pc, i, locals, history, prev, events, calls>>

\* main's locals and the folders as one record, for the operators above.
Run ==
    [ papers |-> papers, removed |-> removed, archive |-> archive,
      current_ref_ids |-> current_ref_ids, processed_count |-> processed_count,
      new_count |-> new_count, updated_count |-> updated_count,
      moved_count |-> moved_count, touched |-> touched, attempted |-> attempted,
      failed |-> failed, fell_back |-> fell_back, unread |-> unread,
      io_errors |-> io_errors ]

Becomes(r) ==
    /\ papers' = r.papers
    /\ removed' = r.removed
    /\ archive' = r.archive
    /\ current_ref_ids' = r.current_ref_ids
    /\ processed_count' = r.processed_count
    /\ new_count' = r.new_count
    /\ updated_count' = r.updated_count
    /\ moved_count' = r.moved_count
    /\ touched' = r.touched
    /\ attempted' = r.attempted
    /\ failed' = r.failed
    /\ fell_back' = r.fell_back
    /\ unread' = r.unread
    /\ io_errors' = r.io_errors

\* main's locals as lines 355-364 set them, over the given folders and archive.
FreshRun(p, rm, a) ==
    [ papers |-> p, removed |-> rm, archive |-> a,
      current_ref_ids |-> {}, processed_count |-> 0, new_count |-> 0,
      updated_count |-> 0, moved_count |-> 0, touched |-> {}, attempted |-> {},
      failed |-> {}, fell_back |-> {}, unread |-> {}, io_errors |-> FALSE ]

Snapshot == [papers |-> papers, removed |-> removed, archive |-> archive_file]

NoSnapshot == [papers |-> EmptyMap, removed |-> EmptyMap, archive |-> EmptyMap]

\* A run of main from start to end in which no file-system call fails.
RECURSIVE LoopFrom(_, _, _)
LoopFrom(r, entries, k) ==
    IF k > Len(entries) THEN r
    ELSE LoopFrom(ProcessOne(r, entries[k],
                             CHOOSE f \in find_existing_file_by_ref_id(
                                              r.papers, RefIdOf(entries[k])) : TRUE,
                             NoFailure),
                  entries, k + 1)

DiskOf(r) == [papers |-> r.papers, removed |-> r.removed, archive |-> r.archive]

UninterruptedRun(s, entries) ==
    DiskOf(cleanup_removed_papers(
               LoopFrom(FreshRun(s.papers, s.removed, s.archive), entries, 1), {}))

NoPrev == [kind |-> "none", clean |-> FALSE, failed |-> {}, migrated |-> {},
           expect |-> NoSnapshot, before |-> NoSnapshot]

\* The identifiers whose archive entry, in the shape an earlier version of the
\* program saved (the entry itself), this run replaced.
Migrated ==
    {ref_id \in (DOMAIN pre.archive \cap attempted) \ failed :
        "entry" \notin DOMAIN pre.archive[ref_id]}

\* ------------------------------------------------------------------ actions
\* The actions that take max follow at most max events from outside; EditBib
\* draws the new export from universe.

Stopped == pc \in {"idle", "done", "crashed"}

\* main, lines 325-364: the archive is loaded, the counters are zeroed.
StartRun ==
    /\ Stopped
    /\ Becomes(FreshRun(papers, removed, archive_file))
    /\ pc' = "loop"
    /\ i' = 1
    /\ pre' = Snapshot
    /\ prev' = IF pc = "done"
               THEN [NoPrev EXCEPT !.kind = "rerun", !.clean = ~io_errors,
                                   !.failed = failed, !.migrated = Migrated]
               ELSE IF pc = "crashed" THEN prev ELSE NoPrev
    /\ UNCHANGED <<bib, archive_file, events, calls>>

\* Mutant: the archive is saved as the loop goes.
ArchiveFileSavedEarly(file, inMemory) == inMemory

\* The archive file while main's loop and cleanup run: they change the archive
\* in memory only, save_archive is called once they are over.
ArchiveFileDuringRun(file, inMemory) == file

\* The step to r; the first failing file-system call of a run is an event.
Charged(r, max) ==
    /\ (r.io_errors /\ ~io_errors) => events < max
    /\ Becomes(r)
    /\ archive_file' = ArchiveFileDuringRun(archive_file, r.archive)
    /\ events' = IF r.io_errors /\ ~io_errors THEN events + 1 ELSE events

\* main, lines 366-399: one iteration of the loop.
ProcessEntry(max) ==
    /\ pc = "loop"
    /\ i <= Len(bib)
    /\ \E existing \in find_existing_file_by_ref_id(papers, RefIdOf(bib[i])),
          io \in IOOutcomes :
            \E r \in {ProcessOne(Run, bib[i], existing, io)} : Charged(r, max)
    /\ i' = i + 1
    /\ UNCHANGED <<bib, pc, pre, prev, calls>>

\* main, lines 401-402: cleanup_removed_papers, some of whose moves may fail.
Cleanup(max) ==
    /\ pc = "loop"
    /\ i > Len(bib)
    /\ \E failMoves \in SUBSET FilesToMove(Run) :
            \E r \in {cleanup_removed_papers(Run, failMoves)} : Charged(r, max)
    /\ pc' = "save"
    /\ UNCHANGED <<bib, i, pre, prev, calls>>

\* main, lines 404-415: save_archive and the summary.
SaveArchive ==
    /\ pc = "save"
    /\ archive_file' = archive
    /\ pc' = "done"
    /\ UNCHANGED <<bib, papers, removed, i, locals, history, prev, events, calls>>

\* The process dies, leaving the folders as p and rm: main's locals are lost,
\* the archive file is as it was.
Dies(p, rm, max) ==
    /\ events < max
    /\ Becomes(FreshRun(p, rm, EmptyMap))
    /\ pc' = "crashed"
    /\ i' = 0
    /\ pre' = pre
    /\ prev' = [NoPrev EXCEPT !.kind = "recover",
                              !.clean = ~io_errors,
                              !.expect = UninterruptedRun(pre, bib),
                              !.before = pre]
    /\ events' = events + 1
    /\ UNCHANGED <<bib, archive_file, calls>>

\* A crash between two iterations, or between cleanup and save_archive.
CrashBetween(max) ==
    /\ pc \in {"loop", "save"}
    /\ Dies(papers, removed, max)

\* A crash inside create_obsidian_file: after the backup of the occupant, or
\* after the rename.
CrashInEntry(max) ==
    /\ pc = "loop"
    /\ i <= Len(bib)
    /\ ~Unchanged(archive, get_bib_entry(bib[i]))
    /\ \E existing \in find_existing_file_by_ref_id(papers, RefIdOf(bib[i])),
          afterRename \in BOOLEAN :
            \E c \in {create_obsidian_file(get_bib_entry(bib[i]), papers, existing,
                                            NoFailure)} :
                Dies(IF afterRename THEN c.afterRename ELSE c.afterBackup, removed, max)

\* A crash inside cleanup_removed_papers: some files moved, others not yet.
CrashInCleanup(max) ==
    /\ pc = "loop"
    /\ i > Len(bib)
    /\ \E notYet \in SUBSET FilesToMove(Run) :
            \E r \in {cleanup_removed_papers(Run, notYet)} :
                Dies(r.papers, r.removed, max)

\* Between runs everything main held is gone.
Forget ==
    /\ Becomes(FreshRun(papers', removed, EmptyMap))
    /\ pc' = "idle"
    /\ i' = 0
    /\ pre' = NoSnapshot
    /\ prev' = NoPrev
    /\ events' = events + 1

\* The records of b that are not of the identifier ref_id.
Without(b, ref_id) == SelectSeq(b, LAMBDA raw : RefIdOf(raw) # ref_id)

\* The bibliography is exported anew, one reference added, removed or changed.
EditBib(universe, max) ==
    /\ Stopped
    /\ events < max
    /\ bib' \in universe \ {bib}
    /\ \E ref_id \in {RefA, RefB, <<>>} : Without(bib', ref_id) = Without(bib, ref_id)
    /\ papers' = papers
    /\ Forget
    /\ UNCHANGED <<archive_file, calls>>

\* The text of a note below its header, replaced.
WithBody(content, body) ==
    SubSeq(content, 1, IndexOf(content, Separator) + Len(Separator) - 1) \o body

\* The user edits the notes of a file in the Papers folder.
UserEdit(max) ==
    /\ Stopped
    /\ events < max
    /\ \E f \in DOMAIN papers, body \in UserBodies :
          /\ IndexOf(papers[f], Separator) # 0
          /\ WithBody(papers[f], body) # papers[f]
          /\ papers' = [papers EXCEPT ![f] = WithBody(papers[f], body)]
    /\ Forget
    /\ UNCHANGED <<bib, archive_file, calls>>

\* No function is called on its own.
NoOp == [fn |-> "main"]

NoRet == [fn |-> "none"]

\* The state before main runs, in a vault whose Papers folder and archive file
\* are drawn from the given sets.
InitFrom(universe, folders, archives) ==
    /\ bib \in universe
    /\ papers \in folders
    /\ removed = EmptyMap
    /\ archive_file \in archives
    /\ pc = "idle"
    /\ i = 0
    /\ archive = EmptyMap
    /\ current_ref_ids = {}
    /\ processed_count = 0
    /\ new_count = 0
    /\ updated_count = 0
    /\ moved_count = 0
    /\ touched = {}
    /\ attempted = {}
    /\ failed = {}
    /\ fell_back = {}
    /\ unread = {}
    /\ io_errors = FALSE
    /\ pre = NoSnapshot
    /\ prev = NoPrev
    /\ events = 0

InitMain(universe) == InitFrom(universe, {EmptyMap}, {EmptyMap})

InitIn(universe) ==
    /\ InitMain(universe)
    /\ op = NoOp
    /\ ret = NoRet

Init == InitIn(Bibs)

Next ==
    \/ StartRun
    \/ ProcessEntry(MaxEvents)
    \/ Cleanup(MaxEvents)
    \/ SaveArchive
    \/ CrashBetween(MaxEvents)
    \/ CrashInEntry(MaxEvents)
    \/ CrashInCleanup(MaxEvents)
    \/ EditBib(Bibs, MaxEvents)
    \/ UserEdit(MaxEvents)

\* Two identifiers and a record without ID.
Spec == Init /\ [][Next]_vars

InitOne == InitIn(BibsOne)

NextOne ==
    \/ StartRun
    \/ ProcessEntry(MaxEventsOne)
    \/ Cleanup(MaxEventsOne)
    \/ SaveArchive
    \/ CrashBetween(MaxEventsOne)
    \/ CrashInEntry(MaxEventsOne)
    \/ CrashInCleanup(MaxEventsOne)
    \/ EditBib(BibsOne, MaxEventsOne)
    \/ UserEdit(MaxEventsOne)

\* One identifier, followed through more events.
SpecOne == InitOne /\ [][NextOne]_vars

\* ------------------------------------------------------ a vault with a past

\* At most MaxEventsVault events from outside are followed from a vault that
\* an earlier version of the program, or the user, left behind.
MaxEventsVault == 2

\* The record the earlier version synced.
OldRecord == [ID |-> RefA, title |-> <<"T">>]

\* Its archive: identifier -> entry, without the {entry, notes} shape.
OldArchives == {EmptyMap, SetKey(EmptyMap, RefA, get_bib_entry(OldRecord))}

\* Its note, with or without notes of the user, or no file at all.
OldPapers ==
    {EmptyMap}
    \cup {Put(EmptyMap, create_safe_filename(get_bib_entry(OldRecord).title, RefA),
              create_markdown_content(get_bib_entry(OldRecord), notes)) :
            notes \in {<<>>, <<"n">>}}

\* The user deletes a note from the Papers folder.
UserDelete(max) ==
    /\ Stopped
    /\ events < max
    /\ \E f \in DOMAIN papers : papers' = Rm(papers, f)
    /\ Forget
    /\ UNCHANGED <<bib, archive_file, calls>>

InitVault ==
    /\ InitFrom(BibsOne, OldPapers, OldArchives)
    /\ op = NoOp
    /\ ret = NoRet

NextVault ==
    \/ StartRun
    \/ ProcessEntry(MaxEventsVault)
    \/ Cleanup(MaxEventsVault)
    \/ SaveArchive
    \/ CrashBetween(MaxEventsVault)
    \/ CrashInEntry(MaxEventsVault)
    \/ CrashInCleanup(MaxEventsVault)
    \/ EditBib(BibsOne, MaxEventsVault)
    \/ UserEdit(MaxEventsVault)
    \/ UserDelete(MaxEventsVault)

\* One identifier, in a vault that may hold an old archive and a note, and
\* whose notes the user may delete.
SpecVault == InitVault /\ [][NextVault]_vars

\* --------------------------------------------- a title that comes and goes

\* At most MaxEventsDeep events from outside are followed when the title of
\* the single reference A is removed and put back.
MaxEventsDeep == 5

\* The exports of A without a title and with the title T.
BibsDeep == {<<[ID |-> RefA]>>, <<[ID |-> RefA, title |-> <<"T">>]>>}

InitDeep == InitIn(BibsDeep)

NextDeep ==
    \/ StartRun
    \/ ProcessEntry(MaxEventsDeep)
    \/ Cleanup(MaxEventsDeep)
    \/ SaveArchive
    \/ EditBib(BibsDeep, MaxEventsDeep)
    \/ UserEdit(MaxEventsDeep)

\* Runs that complete, between changes of A's title and edits of its notes.
SpecDeep == InitDeep /\ [][NextDeep]_vars

\* ------------------------------------------------- functions on their own

\* The text of n characters c.
Rep(c, n) == [k \in 1..n |-> c]

\* Titles around the length where create_safe_filename truncates, a title
\* whose truncation ends in a blank, titles of illegal or blank characters.
FilenameTitles ==
    {Rep("a", n) : n \in {0, 1, 240, 243, 244, 245, 246, 250, 1000}}
        \cup {Rep("a", 238) \o <<" ", " ">> \o Rep("b", 20),
              <<"?">>, <<" ">>, <<"a", ":", " ", "b", "?">>}

\* Identifiers that leave room for a title, none, or do not fit themselves.
FilenameIds ==
    {Rep("x", n) : n \in {0, 1, 5, 243, 244, 245, 246, 247, 248, 300}}
        \cup {<<"x", ".", "y">>}

\* Raw records whose fields carry quotes, separators and every header line.
RenderRecords ==
    {[ID |-> RefA],
     [ID |-> RefA, title |-> <<"T">>],
     [ID |-> RefA, title |-> <<"a", " ", "\"", "b", "\"">>],
     [ID |-> RefA, title |-> <<"-", "-", "-">>, year |-> <<"1">>],
     [ID |-> RefA, title |-> <<"T">>, author |-> <<"S", ",", " ", "\"", "J", "\"">>],
     [ID |-> RefA, title |-> <<"T">>, journal |-> <<"\"", "J", "\"">>],
     [ID |-> RefA, title |-> <<"T">>, booktitle |-> <<"C", "\"">>],
     [ID |-> RefA, title |-> <<"T">>, abstract |-> <<"a", "\"", "b", "\n", "c">>],
     [ID |-> RefA, title |-> <<"T">>, url |-> <<"h", ":", "/", "/", "u">>],
     [title |-> <<"T">>]}

\* Notes: none, a word, lines, a separator inside, the placeholder, untrimmed.
RenderNotes ==
    {<<>>,
     <<"n">>,
     <<"a", " ", "b">>,
     <<"a", "\n", "\n", "b">>,
     <<"a", "\n", "-", "-", "-", "\n", "\n", "b">>,
     <<"-", "-", "-">>,
     <<"\"">>,
     <<PLACEHOLDER>>,
     <<PLACEHOLDER, "\n", "n">>,
     <<" ", "n", "\n">>}

FnCalls ==
    {[fn |-> "create_safe_filename", title |-> t, ref_id |-> r] :
        t \in FilenameTitles, r \in FilenameIds}
    \cup {[fn |-> "render", entry |-> get_bib_entry(raw), notes |-> n] :
        raw \in RenderRecords, n \in RenderNotes}

\* A file name the calls on their own use.
SomeFile == <<"f">>

\* create_safe_filename(title, ref_id) is called.
CallCreateSafeFilename ==
    /\ op.fn = "create_safe_filename"
    /\ ret = NoRet
    /\ ret' = [fn |-> op.fn, filename |-> create_safe_filename(op.title, op.ref_id)]
    /\ UNCHANGED <<disk, pc, i, locals, history, prev, events, op>>

\* create_markdown_content(entry, {'notes': notes}) is called, its result is
\* written to a file, and extract_user_content_from_markdown is called on it.
CallRenderExtract ==
    /\ op.fn = "render"
    /\ ret = NoRet
    /\ \E content \in {create_markdown_content(op.entry, op.notes)} :
          ret' = [fn |-> op.fn,
                  content |-> content,
                  notes |-> extract_user_content_from_markdown(
                                Put(EmptyMap, SomeFile, content), SomeFile, FALSE)]
    /\ UNCHANGED <<disk, pc, i, locals, history, prev, events, op>>

InitFn ==
    /\ InitMain({<<>>})
    /\ op \in FnCalls
    /\ ret = NoRet

NextFn ==
    \/ CallCreateSafeFilename
    \/ CallRenderExtract

\* The filename policy, the renderer and the extractor, each on its own.
SpecFn == InitFn /\ [][NextFn]_vars

\* ------------------------------------------------------------------- claims

Done == pc = "done"

\* The identifiers main derives from the export's records.
BibRefIds == {RefIdOf(bib[k]) : k \in 1..Len(bib)}

\* The name the Filename Policy gives the note of an archived identifier.
ArchivedName(arch, ref_id) == create_safe_filename(arch[ref_id].entry.title, ref_id)

\* The note files of an identifier in a folder: "<title> (<id>).md", "<id>.md".
NoteFilesOf(dir, ref_id) ==
    {f \in DOMAIN dir : EndsWith(f, <<"(">> \o ref_id \o <<")">> \o DotMd)
                          \/ f = ref_id \o DotMd}

\* The files of a folder named "<title> (<ref_id>).md".
TitledNotesOf(dir, ref_id) ==
    {f \in DOMAIN dir : EndsWith(f, <<"(">> \o ref_id \o <<")">> \o DotMd)}

\* The notes found in the files of the two folders.
NotesIn(s) ==
    ({NotesOf(s.papers[f]) : f \in DOMAIN s.papers}
        \cup {NotesOf(s.removed[f]) : f \in DOMAIN s.removed}) \ {<<>>}

AllHaveId == \A k \in 1..Len(bib) : Has(bib[k], "ID")

\* C1 as stated (idempotence): a run that follows a completed run, with the
\* same bibliography (its records all with an ID) and no edit from outside in
\* between, writes, renames and moves no file and saves the archive as the
\* first run left it.
C1_IdempotenceAfterAnyRun ==
    (Done /\ prev.kind = "rerun" /\ AllHaveId)
        => /\ touched = {}
           /\ papers = pre.papers
           /\ removed = pre.removed
           /\ archive_file = pre.archive

\* C1, amended: a run that follows a completed run in which no record's
\* processing raised, with the same bibliography and no edit from outside in
\* between, writes, renames and moves no file and saves the archive as the
\* first run left it.
C1_Idempotence ==
    (Done /\ prev.kind = "rerun" /\ prev.failed = {})
        => /\ touched = {}
           /\ papers = pre.papers
           /\ removed = pre.removed
           /\ archive_file = pre.archive

C1_Witness ==
    /\ Done
    /\ prev.kind = "rerun"
    /\ prev.failed = {}
    /\ Len(bib) = 2
    /\ BibRefIds \subseteq DOMAIN archive_file
    /\ Cardinality(DOMAIN papers) >= 2

\* The two entries differ in the title and in nothing else.
TitleOnlyChange(old, new) ==
    old.title # new.title /\ [old EXCEPT !.title = new.title] = new

\* C2 (content preservation): after a run without file-system failure, for
\* every record that differs from its archived entry only in the title and
\* whose note (under the archived title's name) carried notes before the run,
\* the file at the new title's name is the rendering of the new entry around
\* exactly those notes.
C2_NotesPreserved ==
    (Done /\ ~io_errors)
        => \A k \in 1..Len(bib) :
             LET new == get_bib_entry(bib[k])
                 ref_id == new.ref_id
             IN  (/\ ref_id \in DOMAIN pre.archive
                  /\ TitleOnlyChange(pre.archive[ref_id].entry, new)
                  /\ ArchivedName(pre.archive, ref_id) \in DOMAIN pre.papers
                  /\ NotesOf(pre.papers[ArchivedName(pre.archive, ref_id)]) # <<>>)
                 => /\ create_safe_filename(new.title, ref_id) \in DOMAIN papers
                    /\ papers[create_safe_filename(new.title, ref_id)]
                         = create_markdown_content(
                               new, NotesOf(pre.papers[ArchivedName(pre.archive, ref_id)]))

\* The names a step on ref_id may touch when it renames old to new.
RenameNames(old, new, ref_id) == {old, new, BackupName(new, ref_id)}

SameFile(dir1, dir2, f) ==
    /\ f \in DOMAIN dir1 <=> f \in DOMAIN dir2
    /\ f \in DOMAIN dir1 => dir1[f] = dir2[f]

\* What C3 asks of one iteration of main's loop on the record raw, whose
\* archived entry has a non-empty title under whose name the note exists,
\* and whose new title is non-empty and gives another name.
RenamedRight(raw, ref_id, old, new) ==
    (/\ ref_id \in DOMAIN archive
     /\ ~Unchanged(archive, get_bib_entry(raw))
     /\ archive[ref_id].entry.title # <<>>
     /\ get_bib_entry(raw).title # <<>>
     /\ old \in DOMAIN papers
     /\ old # new)
        => /\ new \in DOMAIN papers'
           /\ old \notin DOMAIN papers'
           /\ TitledNotesOf(papers', ref_id) = {new}
           /\ \A f \in (DOMAIN papers \cup DOMAIN papers') \ RenameNames(old, new, ref_id) :
                SameFile(papers, papers', f)
           /\ removed' = removed

\* C3 (rename correctness): in a run without file-system failure, processing
\* a changed record whose note exists under the old title's name leaves
\* exactly one file named "<title> (<id>).md", under the new title's name, no file
\* under the old name, and every file of any other identifier as it was.
C3_RenameCorrect ==
    [][(pc = "loop" /\ pc' = "loop" /\ i' = i + 1 /\ ~io_errors')
          => RenamedRight(bib[i], RefIdOf(bib[i]),
                          ArchivedName(archive, RefIdOf(bib[i])),
                          create_safe_filename(get_bib_entry(bib[i]).title,
                                               RefIdOf(bib[i])))]_vars

NameTA == <<"T", " ", "(", "A", ")", ".", "m", "d">>

NameUA == <<"U", " ", "(", "A", ")", ".", "m", "d">>

NameTB == <<"T", " ", "(", "B", ")", ".", "m", "d">>

C3_Witness ==
    /\ Done
    /\ ~io_errors
    /\ RefA \in attempted
    /\ NameTA \in DOMAIN pre.papers
    /\ NameTA \notin DOMAIN papers
    /\ NameUA \in DOMAIN papers
    /\ NameTB \in DOMAIN papers
    /\ RefB \notin attempted

\* C4 (archival correctness): after a run without file-system failure on a
\* bibliography whose records all have an ID, the note of every archived
\* identifier that left the bibliography is in Removed Papers and no longer in
\* Papers, the note of every unchanged identifier is as it was, and the archive
\* holds the bibliography's identifiers only.
C4_Archived ==
    (Done /\ ~io_errors /\ AllHaveId)
        => /\ \A ref_id \in (DOMAIN pre.archive \ BibRefIds) \cap {RefA, RefB} :
                ArchivedName(pre.archive, ref_id) \in DOMAIN pre.papers
                    => /\ ArchivedName(pre.archive, ref_id) \in DOMAIN removed
                       /\ ArchivedName(pre.archive, ref_id) \notin DOMAIN papers
           /\ \A ref_id \in BibRefIds \ attempted :
                SameFile(pre.papers, papers, ArchivedName(pre.archive, ref_id))
           /\ DOMAIN archive_file = BibRefIds

\* C5 as stated (archive/bibliography agreement): after every run that
\* completes, on a bibliography whose records all have an ID, the archive's
\* identifiers are those of the bibliography.
C5_AgreementAfterEveryRun ==
    (Done /\ AllHaveId) => DOMAIN archive_file = BibRefIds

\* C5, amended: after every run that completes and in which no record's
\* processing raised, the archive's identifiers are those of the bibliography.
C5_Agreement ==
    (Done /\ failed = {}) => DOMAIN archive_file = BibRefIds

C5_Witness ==
    /\ Done
    /\ failed = {}
    /\ DOMAIN pre.archive \ BibRefIds # {}
    /\ BibRefIds \ DOMAIN pre.archive # {}
    /\ DOMAIN archive_file = BibRefIds

\* C6 (retry of failed archival): after cleanup, an archived identifier that
\* is absent from the bibliography and whose file is still in the Papers
\* folder (its move failed) is still in the archive.
C6_FailedMoveKept ==
    pc \in {"save", "done"}
        => \A ref_id \in (DOMAIN pre.archive \ current_ref_ids) \cap {RefA, RefB} :
             TitledNotesOf(papers, ref_id) # {} => ref_id \in DOMAIN archive

\* C7 (malformed records are skipped): after a run, a record without ID has
\* added nothing to current_ref_ids, no entry to the archive and no file to
\* the Papers folder.
C7_NoIdSkipped ==
    Done
        => \A k \in 1..Len(bib) :
             ~Has(bib[k], "ID")
                => /\ <<>> \notin current_ref_ids
                   /\ <<>> \notin DOMAIN archive_file
                   /\ create_safe_filename(get_bib_entry(bib[k]).title, <<>>)
                          \notin DOMAIN papers

\* C8 (single live file per identifier): in every reachable state the Papers
\* folder holds at most one note file of each identifier.
C8_SingleLiveFile ==
    \A ref_id \in {RefA, RefB} : Cardinality(NoteFilesOf(papers, ref_id)) <= 1

\* The archive entry of ref_id is as it was before the run, or as absent.
EntryAsBefore(ref_id) ==
    /\ ref_id \in DOMAIN archive_file <=> ref_id \in DOMAIN pre.archive
    /\ ref_id \in DOMAIN archive_file => archive_file[ref_id] = pre.archive[ref_id]

\* C9 as stated (failure isolation and retry): when a write or a rename of
\* the processing of an identifier failed in a run, the loop still went
\* through every record, the identifier's archive entry is the one of before
\* the run (absent if it was absent), and the next run does not skip it.
C9_AnyFailureIsolated ==
    Done
        => /\ current_ref_ids = BibRefIds
           /\ \A k \in 1..Len(bib) :
                RefIdOf(bib[k]) \in failed \cup fell_back
                    => /\ EntryAsBefore(RefIdOf(bib[k]))
                       /\ ~Unchanged(archive_file, get_bib_entry(bib[k]))

\* C9, amended (failure isolation and retry): when the processing of
\* identifiers raised in a run (their write failed), the loop still went
\* through every record, every other record is up to date in the saved
\* archive, the archive entries of the failing identifiers are those of before
\* the run (absent if they were absent), so the next run does not skip them;
\* and a run that follows with the same bibliography processes them again.
C9_FailureIsolated ==
    /\ Done
         => /\ current_ref_ids = BibRefIds
            /\ \A k \in 1..Len(bib) :
                 IF RefIdOf(bib[k]) \in failed
                 THEN /\ EntryAsBefore(RefIdOf(bib[k]))
                      /\ ~Unchanged(archive_file, get_bib_entry(bib[k]))
                 ELSE Unchanged(archive_file, get_bib_entry(bib[k]))
    /\ (Done /\ prev.kind = "rerun") => prev.failed \subseteq attempted

C9_Witness ==
    /\ Done
    /\ prev.kind = "rerun"
    /\ prev.failed = {RefA}
    /\ failed = {}
    /\ Len(bib) = 2
    /\ attempted = {RefA}

C13_FilenameBudget ==
    (ret.fn = "create_safe_filename")
        => /\ Len(ret.filename) <= 250
           /\ (op.title # <<>> /\ Len(op.ref_id) + 6 <= 250)
                => EndsWith(ret.filename,
                            <<" ", "(">> \o op.ref_id \o <<")", ".", "m", "d">>)

\* A title of 1000 characters was cut to fit a short identifier's suffix.
C13_Witness ==
    /\ ret.fn = "create_safe_filename"
    /\ Len(op.title) = 1000
    /\ Len(op.ref_id) = 5
    /\ Len(ret.filename) = 250
    /\ ret.filename[239] = "a"

\* The text of a rendering after the header's closing line and blank line.
BodyOf(content) ==
    SubSeq(content, IndexOf(content, Separator) + Len(Separator), Len(content))

\* The notes the round trip is claimed for.
ProperNotes(notes) ==
    notes # <<>> /\ Strip(notes) = notes /\ notes # <<PLACEHOLDER>>

\* C16 (render/extract round trip): extracting from the rendering of an entry
\* with notes that are non-empty, trimmed and not the placeholder returns the
\* notes; the rendering of empty notes has the placeholder and a blank line
\* for body and its extraction returns no notes; rendering the extracted
\* notes reproduces the content in both cases.
C16_RoundTrip ==
    (ret.fn = "render")
        => /\ ProperNotes(op.notes) => ret.notes = op.notes
           /\ op.notes = <<>>
                => /\ BodyOf(ret.content) = <<PLACEHOLDER, "\n", "\n">>
                   /\ ret.notes = <<>>
           /\ (ProperNotes(op.notes) \/ op.notes = <<>>)
                => create_markdown_content(op.entry, ret.notes) = ret.content

\* Notes that hold the header's closing line and a blank line came back.
C16_Witness ==
    /\ ret.fn = "render"
    /\ op.notes = <<"a", "\n", "-", "-", "-", "\n", "\n", "b">>
    /\ ret.notes = op.notes
    /\ op.entry.title = <<"-", "-", "-">>

\* The keys of the header lines whose value is between double quotes.
QuotedKeys == {"title: ", "authors: ", "journal: ", "conference: ", "abstract: "}

\* The header of a rendering, line by line.
HeaderLines(content) ==
    SplitOn(SubSeq(content, 1, IndexOf(content, Separator) - 1), "\n")

\* The double quotes of a line that no backslash precedes.
BareQuotes(line) ==
    {k \in 1..Len(line) : line[k] = "\"" /\ (k = 1 \/ line[k - 1] # "\\")}

\* C19 (header escaping): on every header line of a rendering that holds a
\* text field between double quotes, the only double quotes without a
\* backslash before them are the two around the value.
C19_QuotesEscaped ==
    (ret.fn = "render")
        => \A k \in 1..Len(HeaderLines(ret.content)) :
             (HeaderLines(ret.content)[k] # <<>>
                /\ Head(HeaderLines(ret.content)[k]) \in QuotedKeys)
                => BareQuotes(HeaderLines(ret.content)[k])
                     = {2, Len(HeaderLines(ret.content)[k])}

\* C11 (retire, never delete): a file that cleanup takes out of the Papers
\* folder is in Removed Papers under its own name with its content, and no
\* step of the program deletes or changes a file that is in Removed Papers.
C11_RetiredKept ==
    [][/\ (pc = "loop" /\ pc' = "save")
            => \A f \in DOMAIN papers \ DOMAIN papers' :
                 f \in DOMAIN removed' /\ removed'[f] = papers[f]
       /\ \A f \in DOMAIN removed :
            f \in DOMAIN removed' /\ removed'[f] = removed[f]]_vars

\* The iteration of main's loop that is under way processes the record of
\* ref_id to the end: create_obsidian_file is called and returns.
Processes(ref_id) ==
    /\ pc = "loop" /\ pc' = "loop" /\ i' = i + 1
    /\ ref_id = RefIdOf(bib[i])
    /\ ref_id \in attempted' \ attempted
    /\ ref_id \notin failed'

\* The file existing is rewritten in place for the entry of the record raw,
\* around its own notes, and the archive holds the entry with those notes.
RewrittenInPlace(existing, raw) ==
    /\ existing \in DOMAIN papers'
    /\ papers'[existing]
         = create_markdown_content(get_bib_entry(raw), NotesOf(papers[existing]))
    /\ RefIdOf(raw) \in DOMAIN archive'
    /\ archive'[RefIdOf(raw)]
         = [entry |-> get_bib_entry(raw), notes |-> NotesOf(papers[existing])]

\* C14 (rename-failure fallback): when the rename of the located file to the
\* new name (or the move of the occupant of that name) fails, and the read and
\* the write do not, the iteration ends with the new rendering around the
\* file's notes written at the located file's path, the archive entry
\* updated, and the loop at the next record.
C14_RenameFallback ==
    [][(/\ pc = "loop" /\ i <= Len(bib)
        /\ RefIdOf(bib[i]) \in fell_back' \ fell_back
        /\ RefIdOf(bib[i]) \notin failed' \cup unread')
          => /\ Processes(RefIdOf(bib[i]))
             /\ \E existing \in GlobRefId(papers, RefIdOf(bib[i])) :
                  /\ existing # create_safe_filename(get_bib_entry(bib[i]).title,
                                                     RefIdOf(bib[i]))
                  /\ RewrittenInPlace(existing, bib[i])]_vars

\* A run in which the rename of a note with notes failed: the note is still
\* under the old name, with the new title in its header and in the archive.
C14_Witness ==
    /\ Done
    /\ fell_back = {RefA}
    /\ failed = {}
    /\ unread = {}
    /\ DOMAIN papers = {NameTA}
    /\ NotesOf(papers[NameTA]) # <<>>
    /\ NotesOf(pre.papers[NameTA]) = NotesOf(papers[NameTA])
    /\ archive_file[RefA].entry.title = <<"U">>
    /\ papers[NameTA] = create_markdown_content(archive_file[RefA].entry,
                                                archive_file[RefA].notes)

CreatedIds == {ref_id \in attempted \ failed : NoteFilesOf(pre.papers, ref_id) = {}}

RewrittenIds == {ref_id \in attempted \ failed : NoteFilesOf(pre.papers, ref_id) # {}}

\* What the summary says at the end of a run.
SummaryRight ==
    /\ new_count = Cardinality(CreatedIds)
    /\ updated_count = Cardinality(RewrittenIds)
    /\ processed_count = new_count + updated_count
    /\ processed_count <= Len(bib)

\* C18 (summary counters): at the end of a run the new count is the number
\* of identifiers processed that had no note file before the run, the updated
\* count the number of those that had one, the processed count their sum and
\* at most the number of records (all with an ID); and cleanup's count is the
\* number of files it took out of the Papers folder into Removed Papers.
C18_SummaryCounters ==
    [][/\ (pc = "loop" /\ pc' = "save")
            => /\ moved_count' = Cardinality(DOMAIN papers \ DOMAIN papers')
               /\ DOMAIN papers \ DOMAIN papers' \subseteq DOMAIN removed'
       /\ (pc = "save" /\ pc' = "done" /\ AllHaveId) => SummaryRight']_vars

\* The name the Filename Policy gives the note of a record.
PolicyName(raw) == create_safe_filename(get_bib_entry(raw).title, RefIdOf(raw))

\* The notes a run that processes the identifier can have read: those of a
\* file found by the identifier's suffix, else those of the file at the new
\* name, else none; none when the read failed.
LocatedNotes(raw) ==
    IF RefIdOf(raw) \in unread THEN {<<>>}
    ELSE IF TitledNotesOf(pre.papers, RefIdOf(raw)) # {}
    THEN {NotesOf(pre.papers[f]) : f \in TitledNotesOf(pre.papers, RefIdOf(raw))}
    ELSE IF PolicyName(raw) \in DOMAIN pre.papers
    THEN {NotesOf(pre.papers[PolicyName(raw)])}
    ELSE {<<>>}

OldShape(arch, ref_id) == ref_id \in DOMAIN arch /\ "entry" \notin DOMAIN arch[ref_id]

\* C20 (old-format archive entries are migrated): an identifier whose archive
\* entry has the old shape is never skipped as unchanged; when its processing
\* succeeds the archive holds the entry in the {entry, notes} shape; and the
\* following run, with the same bibliography, skips it.
C20_OldShapeMigrated ==
    [][/\ (/\ pc = "loop" /\ i <= Len(bib)
           /\ pc' = "loop" /\ i' = i + 1
           /\ OldShape(archive, RefIdOf(bib[i])))
             => /\ RefIdOf(bib[i]) \in attempted'
                /\ RefIdOf(bib[i]) \notin failed'
                     => /\ DOMAIN archive'[RefIdOf(bib[i])] = {"entry", "notes"}
                        /\ archive'[RefIdOf(bib[i])].entry = get_bib_entry(bib[i])
       /\ (pc = "save" /\ pc' = "done" /\ prev.kind = "rerun")
             => /\ prev.migrated \cap attempted = {}
                /\ \A ref_id \in prev.migrated \cap BibRefIds :
                     ~OldShape(archive_file', ref_id)]_vars

\* The run after the one that migrated an old entry has skipped it.
C20_Witness ==
    /\ Done
    /\ prev.kind = "rerun"
    /\ prev.migrated = {RefA}
    /\ RefA \in BibRefIds
    /\ attempted = {}
    /\ DOMAIN archive_file[RefA] = {"entry", "notes"}

\* The content is still in a file of the folder.
KeptIn(dir, content) == \E g \in DOMAIN dir : dir[g] = content

\* C15 (collision safety on rename): when the iteration located a file that
\* must be renamed and another file has the target name, then after the
\* iteration the content of the occupant is still in a file of the Papers
\* folder, and so is the content of every other file that was there (an
\* earlier backup among them) except the located file, which is rewritten.
C15_CollisionSafe ==
    [][(/\ pc = "loop" /\ i <= Len(bib)
        /\ pc' = "loop" /\ i' = i + 1
        /\ RefIdOf(bib[i]) \in attempted' \ attempted
        /\ PolicyName(bib[i]) \in DOMAIN papers
        /\ GlobRefId(papers, RefIdOf(bib[i])) \ {PolicyName(bib[i])} # {})
          => /\ KeptIn(papers', papers[PolicyName(bib[i])])
             /\ \A f \in DOMAIN papers \ GlobRefId(papers, RefIdOf(bib[i])) :
                  KeptIn(papers', papers[f])]_vars


====
